---- MODULE Spec2Model ----
(***************************************************************************)
(* Package sq (sq.go): a Pool whose Tx runs a unit of work fn inside a     *)
(* serializable transaction, and a transaction handle whose Exec, Query    *)
(* and QueryRow build a statement, translate its placeholders and delegate *)
(* to the driver.  Callers share one Pool; each caller runs its Tx calls   *)
(* one after the other.  Spec follows one caller whose unit of work is     *)
(* arbitrary: any statements, any way of ending.  ConcSpec interleaves all *)
(* callers, each incrementing one counter row in a retry loop.  PureSpec   *)
(* applies the statement calls' translation and IsError to bounded inputs. *)
(***************************************************************************)
EXTENDS Integers, Sequences, FiniteSets, TLC

\* ------------------------------------------------------------------ bounds
NumCallers == 2
PoolSize == 2
MaxCalls == 2
MaxStmts == 2
MaxWrap == 2
MaxLen == 3

Callers == 1..NumCallers
Conns == 1..PoolSize

\* ------------------------------------------------------------------ errors
Nil == "nil"
ErrConn == "ErrConn"
ErrClosed == "ErrClosed"
ErrCtx == "ErrCtx"
ErrBuild == "ErrBuild"
ErrArgs == "ErrArgs"
ErrPlaceholder == "ErrPlaceholder"
ErrDriver == "ErrDriver"
ErrAbort == "ErrAbort"
ErrCommit == "ErrCommit"
ErrRollback == "ErrRollback"
ErrSerialization == "ErrSerialization"
ErrUnique == "ErrUnique"
ErrWrapped == "ErrWrapped"
ErrNilPg == "ErrNilPg"

\* SQLSTATE codes: serialization_failure, unique_violation, and one no error
\* of the model carries.
SerializationFailure == "40001"
UniqueViolation == "23505"
OtherCode == "57014"
Codes == {SerializationFailure, UniqueViolation, OtherCode}

\* An error value is nil or a chain of errors, outermost first, each but the
\* last wrapping the next.  A node is a plain error, a *pgconn.PgError with
\* its Code, or a nil *pgconn.PgError held in a non-nil error value.
Plain == [type |-> "plain", isNil |-> FALSE, code |-> ""]
Pg(code) == [type |-> "*PgError", isNil |-> FALSE, code |-> code]
NilPg == [type |-> "*PgError", isNil |-> TRUE, code |-> ""]
NilErr == [nil |-> TRUE, chain |-> <<>>]
Chain(nodes) == [nil |-> FALSE, chain |-> nodes]

\* The error value behind each error of the model.
ErrValue(e) ==
    CASE e = Nil -> NilErr
      [] e = ErrSerialization -> Chain(<<Pg(SerializationFailure)>>)
      [] e = ErrUnique -> Chain(<<Pg(UniqueViolation)>>)
      [] e = ErrWrapped -> Chain(<<Plain, Pg(SerializationFailure)>>)
      [] e = ErrNilPg -> Chain(<<NilPg>>)
      [] OTHER -> Chain(<<Plain>>)

\* errors.As(err, &e) with e a *pgconn.PgError: the first error of the chain
\* whose type is *pgconn.PgError, if any; e is untouched otherwise.
RECURSIVE As(_)
As(chain) ==
    IF chain = <<>> THEN [ok |-> FALSE, e |-> NilPg]
    ELSE IF Head(chain).type = "*PgError" THEN [ok |-> TRUE, e |-> Head(chain)]
    ELSE As(Tail(chain))

\* Variants of IsError: one never finds the code, one does not compare it.
IsErrorNever(err, code) == FALSE

IsErrorAnyCode(err, code) ==
    IF err.nil THEN FALSE
    ELSE LET a == As(err.chain) IN a.ok /\ ~a.e.isNil

IsError(err, code) ==
    IF err.nil THEN FALSE
    ELSE LET a == As(err.chain) IN a.ok /\ ~a.e.isNil /\ a.e.code = code

\* How a function call ends: it returns an error value (Nil included) or it
\* panics; "none" while it has not ended.
NoOutcome == [kind |-> "none", err |-> Nil]
Panicked == [kind |-> "panic", err |-> Nil]
Returned(e) == [kind |-> "return", err |-> e]

\* ------------------------------------------------- statements and builders
\* SQL text is a sequence of tokens: text, the builder's placeholder, a
\* malformed placeholder token, or a native placeholder with its index.
Text == [t |-> "text", i |-> 0]
Ph == [t |-> "?", i |-> 0]
Bad == [t |-> "bad", i |-> 0]
Native(k) == [t |-> "$", i |-> k]

SqlTexts == { <<Text>>, <<Text, Ph>>, <<Ph, Text, Ph>>, <<Text, Bad>> }

\* A StatementBuilder is what its ToSQL returns.
Builders ==
    {[sql |-> s, err |-> Nil] : s \in SqlTexts}
      \cup {[sql |-> <<>>, err |-> e] : e \in {ErrBuild, ErrArgs}}

ToSQL(qb) == qb

RECURSIVE Translate(_, _)
Translate(sql, k) ==
    IF sql = <<>> THEN <<>>
    ELSE IF Head(sql).t = "?" THEN <<Native(k)>> \o Translate(Tail(sql), k + 1)
    ELSE <<Head(sql)>> \o Translate(Tail(sql), k)

replacePlaceholders(sql) ==
    IF \E i \in 1..Len(sql) : sql[i].t = "bad"
    THEN [sql |-> <<>>, err |-> ErrPlaceholder]
    ELSE [sql |-> Translate(sql, 1), err |-> Nil]

\* A variant of ExecShort that does not look at the builder's error.
ExecShortUnchecked(qb) ==
    LET r == replacePlaceholders(ToSQL(qb).sql) IN
    IF r.err # Nil
    THEN [err |-> r.err, sql |-> <<>>, stage |-> "replacePlaceholders", val |-> "nil"]
    ELSE [err |-> Nil, sql |-> r.sql, stage |-> "driver", val |-> "nil"]

\* What a statement call has produced so far.  qbErr is the error of the
\* builder and trErr that of translating its SQL; stage is the step of the
\* three-step protocol that decided the call; val is the non-error return
\* value.
NoStmt ==
    [op |-> "none", qbErr |-> Nil, trErr |-> Nil, stage |-> "none", err |-> Nil,
     val |-> "nil", contacted |-> FALSE]

\* A variant of ExecShort that hands the builder's SQL to the driver as it
\* is.
ExecShortUntranslated(qb) ==
    LET b == ToSQL(qb) IN
    IF b.err # Nil THEN [err |-> b.err, sql |-> <<>>, stage |-> "ToSQL", val |-> "nil"]
    ELSE LET r == replacePlaceholders(b.sql) IN
         IF r.err # Nil
         THEN [err |-> r.err, sql |-> <<>>, stage |-> "replacePlaceholders", val |-> "nil"]
         ELSE [err |-> Nil, sql |-> b.sql, stage |-> "driver", val |-> "nil"]

ExecShort(qb) ==
    LET b == ToSQL(qb) IN
    IF b.err # Nil THEN [err |-> b.err, sql |-> <<>>, stage |-> "ToSQL", val |-> "nil"]
    ELSE LET r == replacePlaceholders(b.sql) IN
         IF r.err # Nil
         THEN [err |-> r.err, sql |-> <<>>, stage |-> "replacePlaceholders", val |-> "nil"]
         ELSE [err |-> Nil, sql |-> r.sql, stage |-> "driver", val |-> "nil"]

\* A variant of QueryShort that returns a Rows along with the builder's or
\* the translator's error.
QueryShortKeepsRows(qb) ==
    LET b == ToSQL(qb) IN
    IF b.err # Nil THEN [err |-> b.err, sql |-> <<>>, stage |-> "ToSQL", val |-> "rows"]
    ELSE LET r == replacePlaceholders(b.sql) IN
         IF r.err # Nil
         THEN [err |-> r.err, sql |-> <<>>, stage |-> "replacePlaceholders", val |-> "rows"]
         ELSE [err |-> Nil, sql |-> r.sql, stage |-> "driver", val |-> "nil"]

QueryShort(qb) ==
    LET b == ToSQL(qb) IN
    IF b.err # Nil THEN [err |-> b.err, sql |-> <<>>, stage |-> "ToSQL", val |-> "nil"]
    ELSE LET r == replacePlaceholders(b.sql) IN
         IF r.err # Nil
         THEN [err |-> r.err, sql |-> <<>>, stage |-> "replacePlaceholders", val |-> "nil"]
         ELSE [err |-> Nil, sql |-> r.sql, stage |-> "driver", val |-> "nil"]

\* A variant of QueryRowShort that does not look at the translator's error.
QueryRowShortUnchecked(qb) ==
    LET b == ToSQL(qb) IN
    IF b.err # Nil THEN [err |-> b.err, sql |-> <<>>, stage |-> "ToSQL", val |-> "rowError"]
    ELSE LET r == replacePlaceholders(b.sql) IN
         [err |-> Nil, sql |-> r.sql, stage |-> "driver", val |-> "nil"]

\* QueryRow has no error result: a failure becomes the rowError it returns.
QueryRowShort(qb) ==
    LET b == ToSQL(qb) IN
    IF b.err # Nil THEN [err |-> b.err, sql |-> <<>>, stage |-> "ToSQL", val |-> "rowError"]
    ELSE LET r == replacePlaceholders(b.sql) IN
         IF r.err # Nil
         THEN [err |-> r.err, sql |-> <<>>, stage |-> "replacePlaceholders", val |-> "rowError"]
         ELSE [err |-> Nil, sql |-> r.sql, stage |-> "driver", val |-> "nil"]

\* rowError.Scan returns the error the row carries.
rowErrorScan(row) == row.err

\* ------------------------------------------------------------------- state
VARIABLES
    closed,     \* Pool.Close has been called
    idle,       \* the pool's connections that are not checked out
    committed,  \* the rows a new, independent transaction sees
    calls,      \* per caller: the Tx calls it has started
    prev,       \* per caller: how its previous Tx call ended
    call,       \* per caller: its current Tx call
    store,      \* the shared counter row, and the snapshot of each transaction
    loop,       \* per caller: whether its retry loop is running
    probe       \* the last application of a pure function: input and output

vars == <<closed, idle, committed, calls, prev, call, store, loop, probe>>

\* What the actions on the pool and its calls leave alone.
aside == <<store, loop, probe>>

IdleCall ==
    [pc |-> "idle", afterClose |-> FALSE, ctxDone |-> FALSE, cancelledAt |-> "none",
     beginErr |-> "none",
     txState |-> "NotStarted", conn |-> 0, begins |-> 0, fnCalls |-> 0,
     commits |-> 0, rollbacks |-> 0, releases |-> 0, stmts |-> 0,
     last |-> NoStmt, scanErr |-> "none", work |-> {},
     fnOut |-> NoOutcome, opErr |-> "none", result |-> NoOutcome]

Init ==
    /\ closed = FALSE
    /\ idle = Conns
    /\ committed = {}
    /\ calls = [c \in Callers |-> 0]
    /\ prev = [c \in Callers |-> "none"]
    /\ call = [c \in Callers |-> IdleCall]
    /\ store = [val |-> 0, ver |-> 0, snap |-> [c \in Callers |-> 0],
                seen |-> [c \in Callers |-> 0]]
    /\ loop = [c \in Callers |-> "running"]
    /\ probe = [fn |-> "none"]

\* --------------------------------------------------------------- the driver
\* A driver operation bound to a cancelled context fails with the context's
\* error; otherwise it succeeds or fails with its own error.
DriverOutcomes(c, own) == IF call[c].ctxDone THEN {ErrCtx} ELSE {Nil, own}

\* A variant of Acquire that begins on a connection whether or not another
\* call holds it.
AcquireShared(c) == Conns

\* The connections BeginTx may check out for a call: the idle ones.
Acquire(c) == idle

\* pool.BeginTx: acquires a connection and begins; waits while none is idle.
BeginOutcomes(c) ==
    IF call[c].ctxDone THEN {ErrCtx}
    ELSE IF closed THEN {ErrClosed}
    ELSE {ErrConn} \cup (IF Acquire(c) = {} THEN {} ELSE {Nil})

\* ---------------------------------------------------------------- Pool.Tx
\* Variants of TxNext: one returns whatever BeginTx said, one never looks at
\* the error.
TxNextAlwaysReturns(err) == "return"

TxNextIgnoresErr(err) == "txExecute"

\* A variant of TxNext that begins again when BeginTx failed.
TxNextRetries(err) == IF err # Nil THEN "begin" ELSE "txExecute"

\* Tx after BeginTx has returned err: return it, or go on to txExecute.
TxNext(err) == IF err # Nil THEN "return" ELSE "txExecute"

\* Variants of TxReturn: one returns the nil error of BeginTx in place of
\* txExecute's, one recovers a panic and returns it as an error.
TxReturnStaleErr(out) == IF out.kind = "return" THEN Returned(Nil) ELSE out

TxReturnRecovers(out) == IF out.kind = "panic" THEN Returned("ErrPanic") ELSE out

\* Tx ends the way txExecute ended.
TxReturn(out) == out

\* txExecute: the operation that resolves the transaction once fn has ended.
txExecuteOp(fnOut) ==
    IF fnOut.kind = "return" /\ fnOut.err = Nil THEN "commit" ELSE "rollback"

\* txExecute: how it ends, from how fn ended and the error of the operation.
txExecuteOutcome(fnOut, opErr) ==
    IF fnOut.kind = "panic" THEN Panicked
    ELSE IF opErr # Nil THEN Returned(opErr)
    ELSE Returned(fnOut.err)

\* A caller calls Tx: BeginTx is in flight.
TxCall(c) ==
    /\ call[c].pc \in {"idle", "done"}
    /\ calls[c] < MaxCalls
    /\ calls' = [calls EXCEPT ![c] = @ + 1]
    /\ prev' = [prev EXCEPT ![c] = call[c].result.kind]
    /\ call' = [call EXCEPT ![c] =
          [IdleCall EXCEPT !.pc = "begin", !.begins = 1, !.afterClose = closed]]
    /\ UNCHANGED <<closed, idle, committed>>

\* BeginTx returns and Tx acts on its error.
TxBegun(c) ==
    /\ call[c].pc = "begin"
    /\ \E err \in BeginOutcomes(c) :
        \E k \in (IF err = Nil THEN Acquire(c) ELSE {0}) :
          LET begun ==
                  IF err = Nil
                  THEN [call[c] EXCEPT !.beginErr = err, !.txState = "Active", !.conn = k]
                  ELSE [call[c] EXCEPT !.beginErr = err]
          IN /\ idle' = idle \ {k}
             /\ CASE TxNext(err) = "return" ->
                       call' = [call EXCEPT ![c] =
                         [begun EXCEPT !.pc = "done", !.result = Returned(err)]]
                  [] TxNext(err) = "txExecute" ->
                       call' = [call EXCEPT ![c] =
                         [begun EXCEPT !.pc = "fn", !.fnCalls = @ + 1]]
                  [] OTHER ->
                       call' = [call EXCEPT ![c] =
                         [@ EXCEPT !.begins = @ + 1]]
    /\ UNCHANGED <<closed, committed, calls, prev>>

\* ------------------------------------------------------- the unit of work
\* A variant of Issue in which a statement call that fails before it reaches
\* the driver ends the transaction.
IssueAborts(c, op, qb, short) ==
    /\ call[c].pc = "fn"
    /\ call[c].stmts < MaxStmts
    /\ call' = [call EXCEPT ![c] =
          [@ EXCEPT !.stmts = @ + 1,
                    !.scanErr = "none",
                    !.pc = IF short.stage = "driver" THEN "stmt" ELSE "fn",
                    !.txState = IF short.err # Nil THEN "RolledBack" ELSE @,
                    !.last = [op |-> op, qbErr |-> ToSQL(qb).err,
                              trErr |-> IF ToSQL(qb).err # Nil THEN Nil
                                        ELSE replacePlaceholders(ToSQL(qb).sql).err,
                              stage |-> short.stage, err |-> short.err,
                              val |-> short.val,
                              contacted |-> short.stage = "driver"]]]
    /\ UNCHANGED <<closed, idle, committed, calls, prev>>

\* A statement call: it returns at once when the builder or the translator
\* failed, and is in flight at the driver otherwise.
Issue(c, op, qb, short) ==
    /\ call[c].pc = "fn"
    /\ call[c].stmts < MaxStmts
    /\ call' = [call EXCEPT ![c] =
          [@ EXCEPT !.stmts = @ + 1,
                    !.scanErr = "none",
                    !.pc = IF short.stage = "driver" THEN "stmt" ELSE "fn",
                    !.last = [op |-> op, qbErr |-> ToSQL(qb).err,
                              trErr |-> IF ToSQL(qb).err # Nil THEN Nil
                                        ELSE replacePlaceholders(ToSQL(qb).sql).err,
                              stage |-> short.stage, err |-> short.err,
                              val |-> short.val,
                              contacted |-> short.stage = "driver"]]]
    /\ UNCHANGED <<closed, idle, committed, calls, prev>>

Exec(c) == \E qb \in Builders : Issue(c, "Exec", qb, ExecShort(qb))

Query(c) == \E qb \in Builders : Issue(c, "Query", qb, QueryShort(qb))

QueryRow(c) == \E qb \in Builders : Issue(c, "QueryRow", qb, QueryRowShort(qb))

\* The row an Exec of this call writes: the next one of the call.
ExecRow(c) == <<c, calls[c], Cardinality(call[c].work) + 1>>

\* A variant of ExecEffect that runs the statement outside the transaction,
\* where it takes effect at once.
ExecEffectOutsideTx(c) ==
    /\ call' = [call EXCEPT ![c] =
          [@ EXCEPT !.pc = "fn", !.work = @ \cup {ExecRow(c)},
                    !.last = [@ EXCEPT !.val = "result"]]]
    /\ committed' = committed \cup {ExecRow(c)}

\* Where a successful Exec's row goes: into the transaction's own work.
ExecEffect(c) ==
    /\ call' = [call EXCEPT ![c] =
          [@ EXCEPT !.pc = "fn", !.work = @ \cup {ExecRow(c)},
                    !.last = [@ EXCEPT !.val = "result"]]]
    /\ UNCHANGED committed

\* The driver answers the statement in flight with error e, and the
\* statement call returns what the driver returned.
StmtAnswer(c, e) ==
    /\ call[c].pc = "stmt"
    /\ IF call[c].last.op = "Exec" /\ e = Nil
       THEN ExecEffect(c)
       ELSE /\ \E v \in (CASE call[c].last.op = "Exec" -> {"nil"}
                           [] call[c].last.op = "Query" ->
                                IF e = Nil THEN {"rows"} ELSE {"nil", "rows"}
                           [] OTHER -> {"row"}) :
                 call' = [call EXCEPT ![c] =
                    [@ EXCEPT !.pc = "fn",
                              !.last = [@ EXCEPT !.err = e, !.val = v]]]
            /\ UNCHANGED committed
    /\ UNCHANGED <<closed, idle, calls, prev>>

StmtDone(c) == \E e \in DriverOutcomes(c, ErrDriver) : StmtAnswer(c, e)

\* fn scans the Row that QueryRow returned.
Scan(c) ==
    /\ call[c].pc = "fn"
    /\ call[c].last.op = "QueryRow"
    /\ call' = [call EXCEPT ![c] =
          [@ EXCEPT !.scanErr = IF call[c].last.val = "rowError"
                                THEN rowErrorScan(call[c].last)
                                ELSE call[c].last.err,
                    !.last = [@ EXCEPT !.contacted = @ \/ call[c].last.val = "row"]]]
    /\ UNCHANGED <<closed, idle, committed, calls, prev>>

\* The errors fn may return: nil, its own sentinel, or one it was handed.
FnErrors(c) ==
    {Nil, ErrAbort}
      \cup (IF call[c].last.op \in {"Exec", "Query"} THEN {call[c].last.err} ELSE {})
      \cup (IF call[c].scanErr # "none" THEN {call[c].scanErr} ELSE {})

\* fn has ended: txExecute issues the commit or the rollback.
FnEnds(c, out) ==
    /\ call[c].pc = "fn"
    /\ LET op == txExecuteOp(out) IN
       call' = [call EXCEPT ![c] =
          [@ EXCEPT !.fnOut = out,
                    !.pc = op,
                    !.commits = IF op = "commit" THEN @ + 1 ELSE @,
                    !.rollbacks = IF op = "rollback" THEN @ + 1 ELSE @]]
    /\ UNCHANGED <<closed, idle, committed, calls, prev>>

FnReturns(c) == \E e \in FnErrors(c) : FnEnds(c, Returned(e))

FnPanics(c) == FnEnds(c, Panicked)

\* The commit or rollback in flight returns: the transaction is over, its
\* connection goes back to the pool, and Tx ends as txExecute ends.
Resolved(c, opErr, state) ==
    /\ idle' = idle \cup {call[c].conn}
    /\ call' = [call EXCEPT ![c] =
          [@ EXCEPT !.pc = "done", !.txState = state, !.conn = 0,
                    !.releases = @ + 1, !.opErr = opErr,
                    !.result = TxReturn(txExecuteOutcome(call[c].fnOut, opErr))]]

\* The commit in flight returns error e.
CommitAnswer(c, e) ==
    /\ call[c].pc = "commit"
    /\ Resolved(c, e, IF e = Nil THEN "Committed" ELSE "RolledBack")
    /\ committed' = IF e = Nil THEN committed \cup call[c].work ELSE committed
    /\ UNCHANGED <<closed, calls, prev>>

Commit(c) == \E e \in DriverOutcomes(c, ErrCommit) : CommitAnswer(c, e)

Rollback(c) ==
    /\ call[c].pc = "rollback"
    /\ \E e \in DriverOutcomes(c, ErrRollback) : Resolved(c, e, "RolledBack")
    /\ UNCHANGED <<closed, committed, calls, prev>>

\* The context of the call is cancelled or times out.
Cancel(c) ==
    /\ call[c].pc \in {"begin", "fn", "stmt", "commit", "rollback"}
    /\ ~call[c].ctxDone
    /\ call' = [call EXCEPT ![c] = [@ EXCEPT !.ctxDone = TRUE, !.cancelledAt = call[c].pc]]
    /\ UNCHANGED <<closed, idle, committed, calls, prev>>

\* Pool.Close.
Close ==
    /\ ~closed
    /\ closed' = TRUE
    /\ UNCHANGED <<idle, committed, calls, prev, call>>

\* The caller Spec follows: the first one.
Solo == CHOOSE c \in Callers : \A d \in Callers : c <= d

Next ==
    \/ TxCall(Solo) /\ UNCHANGED aside
    \/ TxBegun(Solo) /\ UNCHANGED aside
    \/ Exec(Solo) /\ UNCHANGED aside
    \/ Query(Solo) /\ UNCHANGED aside
    \/ QueryRow(Solo) /\ UNCHANGED aside
    \/ StmtDone(Solo) /\ UNCHANGED aside
    \/ Scan(Solo) /\ UNCHANGED aside
    \/ FnReturns(Solo) /\ UNCHANGED aside
    \/ FnPanics(Solo) /\ UNCHANGED aside
    \/ Commit(Solo) /\ UNCHANGED aside
    \/ Rollback(Solo) /\ UNCHANGED aside
    \/ Cancel(Solo) /\ UNCHANGED aside
    \/ Close /\ UNCHANGED aside

Spec == Init /\ [][Next]_vars

\* The steps of a call in progress that are bound to happen: a driver
\* operation in flight returns, and fn ends.
Progress(c) ==
    /\ \/ TxBegun(c)
       \/ StmtDone(c)
       \/ FnReturns(c)
       \/ FnPanics(c)
       \/ Commit(c)
       \/ Rollback(c)
    /\ UNCHANGED aside

FairSpec == Spec /\ WF_vars(Progress(Solo))

\* ------------------------------------------- concurrent callers, a counter
\* Every caller increments one shared counter row: it calls Tx with a unit
\* of work that issues one Exec and returns its error, and calls Tx again
\* while Tx returns an error with the serialization-failure code.  The
\* database is serializable by first-committer-wins: a transaction works on
\* the snapshot taken at its begin, and a statement or a commit on a row
\* that another transaction has committed since fails with that code.
CounterStmt == [sql |-> <<Text, Ph>>, err |-> Nil]

Conflict(c) == store.ver # store.snap[c]

\* How a statement or a commit on the counter row ends.
CounterOutcomes(c, own) ==
    IF call[c].ctxDone THEN {ErrCtx}
    ELSE IF Conflict(c) THEN {ErrSerialization}
    ELSE {Nil, own}

\* The caller's loop calls Tx for the first time.
Increment(c) ==
    /\ loop[c] = "running"
    /\ call[c].pc = "idle"
    /\ TxCall(c)
    /\ UNCHANGED aside

\* Tx returned an error with the serialization-failure code: call it again.
Retry(c) ==
    /\ loop[c] = "running"
    /\ call[c].pc = "done"
    /\ IsError(ErrValue(call[c].result.err), SerializationFailure)
    /\ TxCall(c)
    /\ UNCHANGED aside

\* Tx returned anything else: the loop ends.
Exit(c) ==
    /\ loop[c] = "running"
    /\ call[c].pc = "done"
    /\ ~IsError(ErrValue(call[c].result.err), SerializationFailure)
    /\ loop' = [loop EXCEPT ![c] = "exited"]
    /\ UNCHANGED <<closed, idle, committed, calls, prev, call, store, probe>>

\* BeginTx returns; a transaction that began works on the counter as it is.
CounterBegun(c) ==
    /\ TxBegun(c)
    /\ store' = IF call'[c].txState = "Active"
                THEN [store EXCEPT !.snap[c] = store.ver, !.seen[c] = store.val]
                ELSE store
    /\ UNCHANGED <<loop, probe>>

\* fn issues its one statement.
CounterExec(c) ==
    /\ call[c].stmts = 0
    /\ Issue(c, "Exec", CounterStmt, ExecShort(CounterStmt))
    /\ UNCHANGED aside

CounterStmtDone(c) ==
    /\ \E e \in CounterOutcomes(c, ErrDriver) : StmtAnswer(c, e)
    /\ UNCHANGED aside

\* fn returns the error of its Exec.
CounterFnReturns(c) ==
    /\ call[c].stmts = 1
    /\ FnEnds(c, Returned(call[c].last.err))
    /\ UNCHANGED aside

\* The commit returns: it installs the increment unless it fails.
CounterCommit(c) ==
    /\ \E e \in CounterOutcomes(c, ErrCommit) :
          /\ CommitAnswer(c, e)
          /\ store' = IF e = Nil
                      THEN [store EXCEPT !.val = store.seen[c] + 1, !.ver = @ + 1]
                      ELSE store
    /\ UNCHANGED <<loop, probe>>

CounterRollback(c) == Rollback(c) /\ UNCHANGED aside

CounterCancel(c) == Cancel(c) /\ UNCHANGED aside

PoolClose == Close /\ UNCHANGED aside

ConcNext ==
    \/ PoolClose
    \/ \E c \in Callers :
        \/ CounterCancel(c)
        \/ Increment(c)
        \/ Retry(c)
        \/ Exit(c)
        \/ CounterBegun(c)
        \/ CounterExec(c)
        \/ CounterStmtDone(c)
        \/ CounterFnReturns(c)
        \/ CounterCommit(c)
        \/ CounterRollback(c)

ConcSpec == Init /\ [][ConcNext]_vars

\* ------------------------------------------------------------- properties
Begun(c) == call[c].beginErr = Nil

Left(c) == call[c].pc = "done"

FnReturned(c) == call[c].fnOut.kind = "return"

FnFailed(c) == FnReturned(c) /\ call[c].fnOut.err # Nil

\* C1: a transaction that was begun has had at most one commit or rollback
\* issued at any time, and exactly one (never both, never neither) once
\* control has left Tx, by return or by panic; it is then Committed or
\* RolledBack.
C1_TerminatedExactlyOnce ==
    \A c \in Callers :
        /\ call[c].commits + call[c].rollbacks <= 1
        /\ (Left(c) /\ Begun(c)) =>
              /\ call[c].commits + call[c].rollbacks = 1
              /\ call[c].txState \in {"Committed", "RolledBack"}
              /\ call[c].txState = "Committed" => call[c].commits = 1

C1_Witness ==
    \E c \in Callers :
        /\ Left(c) /\ Begun(c)
        /\ call[c].result = Panicked
        /\ call[c].rollbacks = 1 /\ call[c].commits = 0

\* C2: when fn returns nil, Tx issues a commit and no rollback; once Tx has
\* returned, its result is nil exactly when the commit succeeded, and is the
\* commit's error when it failed.
C2_NilCommits ==
    \A c \in Callers :
        (FnReturned(c) /\ call[c].fnOut.err = Nil) =>
            /\ call[c].commits = 1 /\ call[c].rollbacks = 0
            /\ Left(c) =>
                  /\ call[c].result.kind = "return"
                  /\ call[c].result.err = Nil <=> call[c].opErr = Nil
                  /\ call[c].result.err = call[c].opErr
                  /\ call[c].opErr = Nil <=> call[c].txState = "Committed"

C2_Witness ==
    \E c \in Callers :
        /\ Left(c) /\ call[c].fnOut = Returned(Nil)
        /\ call[c].opErr = ErrCommit
        /\ call[c].result = Returned(ErrCommit)

\* C3: when fn returns a non-nil error E1, Tx issues a rollback and never a
\* commit, and if the rollback succeeded Tx returns exactly E1.
C3_ErrorRollsBack ==
    \A c \in Callers :
        FnFailed(c) =>
            /\ call[c].rollbacks = 1 /\ call[c].commits = 0
            /\ (Left(c) /\ call[c].opErr = Nil) => call[c].result = call[c].fnOut

C3_Witness ==
    \E c \in Callers :
        /\ Left(c) /\ call[c].fnOut = Returned(ErrAbort)
        /\ call[c].opErr = Nil
        /\ call[c].result = Returned(ErrAbort)

\* C4: when fn returns error E1 and the rollback then fails with E2, Tx
\* returns E2.
C4_RollbackErrorWins ==
    \A c \in Callers :
        (FnFailed(c) /\ Left(c) /\ call[c].opErr # Nil) =>
            call[c].result = Returned(call[c].opErr)

C4_Witness ==
    \E c \in Callers :
        /\ Left(c) /\ call[c].fnOut = Returned(ErrAbort)
        /\ call[c].opErr = ErrRollback
        /\ call[c].result = Returned(ErrRollback)

\* C5: when fn panics, a rollback and no commit is issued; when control
\* leaves Tx it does so by that panic, not by a returned error, with the
\* transaction rolled back and its connection back in the pool; and the
\* next Tx call of the caller can begin.
C5_PanicSafety ==
    \A c \in Callers :
        /\ call[c].fnOut.kind = "panic" =>
              /\ call[c].rollbacks = 1 /\ call[c].commits = 0
              /\ Left(c) =>
                    /\ call[c].result = Panicked
                    /\ call[c].txState = "RolledBack"
                    /\ call[c].conn = 0 /\ call[c].releases = 1
        /\ (prev[c] = "panic" /\ call[c].pc = "begin"
               /\ ~closed /\ ~call[c].ctxDone) => Nil \in BeginOutcomes(c)

C5_Witness ==
    \E c \in Callers :
        /\ prev[c] = "panic"
        /\ Left(c) /\ call[c].result = Returned(Nil)
        /\ call[c].txState = "Committed"

\* C6: when BeginTx fails, Tx returns its error at once: fn is never called,
\* no commit or rollback is issued, the transaction stays NotStarted and no
\* connection is held.
C6_BeginFailure ==
    \A c \in Callers :
        call[c].beginErr \notin {"none", Nil} =>
            /\ Left(c)
            /\ call[c].result = Returned(call[c].beginErr)
            /\ call[c].fnCalls = 0
            /\ call[c].commits = 0 /\ call[c].rollbacks = 0
            /\ call[c].txState = "NotStarted"
            /\ call[c].conn = 0

C6_Witness ==
    \E c \in Callers :
        /\ call[c].beginErr = ErrConn
        /\ Left(c) /\ call[c].result = Returned(ErrConn)
        /\ call[c].fnCalls = 0

\* The rows of a caller's current Tx call that a new transaction sees.
Visible(c) == {r \in committed : r[1] = c /\ r[2] = calls[c]}

\* C7: the rows a unit of work has written are visible to a new transaction
\* all together or not at all, and only once its transaction is Committed;
\* they are all visible when fn returned nil and Tx returned nil; none is
\* visible when fn returned an error, and Tx then returns an error with the
\* transaction rolled back.
C7_AtomicVisibility ==
    \A c \in Callers :
        /\ Visible(c) = {}
             \/ (Visible(c) = call[c].work /\ call[c].txState = "Committed")
        /\ (Left(c) /\ call[c].fnOut = Returned(Nil) /\ call[c].result = Returned(Nil))
              => call[c].work \subseteq committed
        /\ FnFailed(c) =>
              /\ Visible(c) = {}
              /\ Left(c) =>
                    /\ call[c].result.kind = "return" /\ call[c].result.err # Nil
                    /\ call[c].txState = "RolledBack"

C7_Witness ==
    \E c \in Callers :
        /\ calls[c] = 2
        /\ Cardinality({r \in committed : r[1] = c /\ r[2] = 1}) = 2
        /\ Left(c) /\ call[c].fnOut = Returned(ErrAbort)
        /\ call[c].result = Returned(ErrAbort)
        /\ Cardinality(call[c].work) = 2
        /\ Visible(c) = {}

\* C8: the connection of a Tx call is returned to the pool at most once at
\* any time and exactly once by the time Tx has ended, however it ended; a
\* call whose begin failed holds none; every connection is either idle or
\* held by one call in progress, so that all are idle when no call is.
C8_ConnectionReturnedOnce ==
    /\ \A c \in Callers :
          /\ call[c].releases <= 1
          /\ (Left(c) /\ Begun(c)) => (call[c].releases = 1 /\ call[c].conn = 0)
          /\ (Left(c) /\ ~Begun(c)) => (call[c].releases = 0 /\ call[c].conn = 0)
          /\ call[c].conn # 0 =>
                /\ call[c].conn \notin idle
                /\ call[c].pc \in {"fn", "stmt", "commit", "rollback"}
    /\ idle \cup {call[c].conn : c \in {d \in Callers : call[d].conn # 0}} = Conns
    /\ (\A c \in Callers : call[c].pc \in {"idle", "done"}) => idle = Conns

C8_Witness ==
    \E c \in Callers :
        /\ Left(c) /\ Begun(c)
        /\ call[c].opErr = ErrRollback
        /\ call[c].releases = 1
        /\ idle = Conns

\* C9: when the builder's ToSQL fails, Exec and Query return that very error
\* and no value, QueryRow returns a rowError whose every Scan returns that
\* very error, the driver is not contacted by the call or by the Scan, and
\* the transaction is still Active.
C9_BuilderErrorShortCircuits ==
    \A c \in Callers :
        call[c].last.qbErr # Nil =>
            /\ call[c].last.stage = "ToSQL"
            /\ call[c].last.err = call[c].last.qbErr
            /\ ~call[c].last.contacted
            /\ call[c].last.op \in {"Exec", "Query"} => call[c].last.val = "nil"
            /\ call[c].last.op = "QueryRow" =>
                  /\ call[c].last.val = "rowError"
                  /\ call[c].scanErr \in {"none", call[c].last.qbErr}
            /\ call[c].pc = "fn" => call[c].txState = "Active"

C9_Witness ==
    \E c \in Callers :
        /\ call[c].pc = "fn"
        /\ call[c].last.op = "QueryRow"
        /\ call[c].last.qbErr = ErrArgs
        /\ call[c].scanErr = ErrArgs
        /\ ~call[c].last.contacted
        /\ call[c].txState = "Active"

InFlight == {"begin", "stmt", "commit", "rollback"}

C10_Safety(c) ==
    /\ Left(c) => call[c].txState # "Active"
    /\ (Left(c) /\ call[c].ctxDone) =>
          /\ call[c].result.kind = "return" => call[c].result.err = ErrCtx
          /\ call[c].result.kind = "panic" => call[c].fnOut.kind = "panic"
          /\ Begun(c) => call[c].txState = "RolledBack"
          /\ ~Begun(c) => call[c].txState = "NotStarted"

Active(c) == call[c].txState = "Active"

C11_Owned(c) ==
    /\ Active(c) =>
          /\ call[c].conn \in Conns
          /\ call[c].conn \notin idle
          /\ \A d \in Callers \ {c} : call[d].conn # call[c].conn
    /\ \A d \in Callers \ {c} :
          (Active(c) /\ Active(d)) => call[c].conn # call[d].conn
    /\ call[c].conn # 0 => Active(c)

\* A connection that becomes idle was held by an Active transaction that
\* this step commits or rolls back, and an Active transaction keeps its
\* connection.
C11_Step ==
    /\ \A k \in idle' \ idle :
          \E c \in Callers :
              /\ Active(c) /\ call[c].conn = k
              /\ call'[c].txState \in {"Committed", "RolledBack"}
    /\ \A c \in Callers :
          (Active(c) /\ call'[c].txState = "Active") => call'[c].conn = call[c].conn

\* C11: under any interleaving of the callers' Tx calls, every Active
\* transaction owns a connection of the pool that is not available to
\* anyone else: it is not idle and no other call holds it; so no connection
\* is owned by two Active transactions, and a connection becomes idle again
\* only in the step in which its transaction is committed or rolled back.
C11_OwnConnection ==
    /\ [](\A c \in Callers : C11_Owned(c))
    /\ [][C11_Step]_vars

C11_Witness ==
    \E c \in Callers : \E d \in Callers \ {c} :
        /\ Active(c) /\ Active(d)
        /\ call[c].pc = "stmt" /\ call[d].pc = "commit"
        /\ call[c].conn # call[d].conn
        /\ idle = Conns \ {call[c].conn, call[d].conn}

\* The rows caller c has committed: one per committed increment.
Increments(c) == {r \in committed : r[1] = c}

\* The error chain holds a database error with this code.
HasCode(err, code) ==
    /\ ~err.nil
    /\ \E i \in 1..Len(err.chain) : err.chain[i] = Pg(code)

AllExited == \A c \in Callers : loop[c] = "exited"

\* No caller's last Tx call failed for another reason than a serialization
\* failure.
OnlySerializationFailures ==
    \A c \in Callers :
        \/ call[c].result = Returned(Nil)
        \/ /\ call[c].result.kind = "return"
           /\ HasCode(ErrValue(call[c].result.err), SerializationFailure)

\* C12: the counter is the number of increments committed, each caller has
\* committed at most one, and exactly one once its loop has ended with Tx
\* returning nil; so when all N callers have finished and no Tx call ended a
\* loop with an error, the counter is N.
C12_NoLostUpdates ==
    /\ store.val = Cardinality(committed)
    /\ \A c \in Callers :
          /\ Cardinality(Increments(c)) <= 1
          /\ (loop[c] = "exited" /\ call[c].result = Returned(Nil))
                => Cardinality(Increments(c)) = 1
    /\ (AllExited /\ OnlySerializationFailures) => store.val = NumCallers

C12_Witness ==
    /\ AllExited
    /\ store.val = NumCallers
    /\ \E c \in Callers : \E d \in Callers \ {c} :
          /\ calls[c] = 2 /\ calls[d] = 1
          /\ call[c].result = Returned(Nil)
          /\ call[d].result = Returned(Nil)

\* ------------------------------------------------------ the pure functions
\* PureSpec applies the statement calls' translation and IsError to inputs
\* of bounded size and records each application in probe.
RECURSIVE SqlOfLen(_)
SqlOfLen(n) ==
    IF n = 0 THEN {<<>>}
    ELSE {Append(q, t) : q \in SqlOfLen(n - 1), t \in {Text, Ph, Bad}}

SqlInputs == UNION {SqlOfLen(n) : n \in 0..MaxLen}

Wraps(n) == [i \in 1..n |-> Plain]

ErrInputs ==
    {NilErr} \cup
    {Chain(Wraps(n) \o <<t>>) :
        n \in 0..MaxWrap, t \in {Plain, NilPg} \cup {Pg(k) : k \in Codes}}

\* What an application of a pure function leaves alone: everything else.
pool == <<closed, idle, committed, calls, prev, call, store, loop>>

ProbeExec ==
    \E q \in SqlInputs :
        /\ probe' = [code |-> "", fn |-> "Exec", out |-> ExecShort([sql |-> q, err |-> Nil]),
                      in |-> q]
        /\ UNCHANGED pool

ProbeQuery ==
    \E q \in SqlInputs :
        /\ probe' = [code |-> "", fn |-> "Query", out |-> QueryShort([sql |-> q, err |-> Nil]),
                      in |-> q]
        /\ UNCHANGED pool

ProbeQueryRow ==
    \E q \in SqlInputs :
        /\ probe' = [code |-> "", fn |-> "QueryRow",
                      out |-> QueryRowShort([sql |-> q, err |-> Nil]), in |-> q]
        /\ UNCHANGED pool

ProbeIsError ==
    \E err \in ErrInputs : \E code \in Codes :
        /\ probe' = [code |-> code, fn |-> "IsError", out |-> IsError(err, code), in |-> err]
        /\ UNCHANGED pool

PureNext ==
    \/ ProbeExec
    \/ ProbeQuery
    \/ ProbeQueryRow
    \/ ProbeIsError

PureSpec == Init /\ [][PureNext]_vars

\* The occurrences of the builder's placeholder among the first i tokens.
Occurrences(q, i) == Cardinality({j \in 1..i : q[j] = Ph})

\* C13: the SQL that Exec, Query and QueryRow hand to the driver is the
\* builder's SQL with its k-th placeholder, counted from the left, replaced
\* by the native placeholder of index k, for k = 1..N, and every other token
\* as it was; SQL without a placeholder is handed over unchanged.
C13_PlaceholderOrder ==
    (probe.fn \in {"Exec", "Query", "QueryRow"}
        /\ \A i \in 1..Len(probe.in) : probe.in[i] # Bad) =>
      LET q == probe.in
          out == probe.out.sql
      IN /\ probe.out.stage = "driver"
         /\ Len(out) = Len(q)
         /\ \A i \in 1..Len(q) :
               IF q[i] = Ph THEN out[i] = Native(Occurrences(q, i)) ELSE out[i] = q[i]
         /\ {out[i].i : i \in {j \in 1..Len(q) : q[j] = Ph}} = 1..Occurrences(q, Len(q))
         /\ Occurrences(q, Len(q)) = 0 => out = q

C13_Witness ==
    /\ probe.fn = "Exec"
    /\ probe.in = <<Ph, Text, Ph>>
    /\ probe.out.sql = <<Native(1), Text, Native(2)>>

\* C19: IsError(err, code) is true exactly when err is not nil and its
\* chain holds a database error whose code is code: it is false for a nil
\* err, for a chain without a database error, and for a database error with
\* another code.
C19_IsError ==
    probe.fn = "IsError" =>
        /\ probe.out <=> HasCode(probe.in, probe.code)
        /\ probe.in.nil => ~probe.out
        /\ (\A i \in 1..Len(probe.in.chain) :
               probe.in.chain[i].type # "*PgError" \/ probe.in.chain[i].isNil)
             => ~probe.out
        /\ (\A i \in 1..Len(probe.in.chain) : probe.in.chain[i].code # probe.code)
             => ~probe.out

C19_Witness ==
    /\ probe.fn = "IsError"
    /\ probe.in = Chain(<<Plain, Plain, Pg(SerializationFailure)>>)
    /\ probe.code = SerializationFailure
    /\ probe.out = TRUE

\* ------------------------------------------------- more properties of Spec
\* The statement call of c has returned.
StmtReturned(c) == call[c].last.op # "none" /\ call[c].pc # "stmt"

\* C14, as amended: a Query that fails at the builder or at the translator
\* returns its error with a nil Rows and without contacting the driver; a
\* Query that returns an error together with a Rows got both from the
\* driver.
C14_QueryErrorRows ==
    \A c \in Callers :
        (StmtReturned(c) /\ call[c].last.op = "Query" /\ call[c].last.err # Nil) =>
            /\ call[c].last.stage \in {"ToSQL", "replacePlaceholders"} =>
                  /\ call[c].last.val = "nil"
                  /\ ~call[c].last.contacted
                  /\ call[c].last.err \in {call[c].last.qbErr, call[c].last.trErr}
            /\ call[c].last.val # "nil" =>
                  /\ call[c].last.stage = "driver"
                  /\ call[c].last.contacted
                  /\ call[c].last.err \in {ErrDriver, ErrCtx}

C14_Witness ==
    \E c \in Callers :
        /\ StmtReturned(c) /\ call[c].last.op = "Query"
        /\ call[c].last.trErr = ErrPlaceholder
        /\ call[c].last.err = ErrPlaceholder
        /\ call[c].last.val = "nil"
        /\ ~call[c].last.contacted

\* C14, as stated: whenever Query returns a non-nil error, the Rows it
\* returns is nil.
C14_Original ==
    \A c \in Callers :
        (StmtReturned(c) /\ call[c].last.op = "Query" /\ call[c].last.err # Nil) =>
            call[c].last.val = "nil"

\* C15: a Tx call made after Pool.Close, once its BeginTx has returned, has
\* returned a non-nil error, the pool's closed error unless its context was
\* cancelled first; fn was never invoked, no transaction was begun and no
\* connection is held.
C15_ClosedPool ==
    \A c \in Callers :
        (call[c].afterClose /\ call[c].pc # "begin") =>
            /\ closed
            /\ Left(c)
            /\ call[c].result.kind = "return"
            /\ call[c].result.err # Nil
            /\ call[c].result.err = (IF call[c].ctxDone THEN ErrCtx ELSE ErrClosed)
            /\ call[c].fnCalls = 0
            /\ call[c].txState = "NotStarted" /\ ~Begun(c)
            /\ call[c].conn = 0
            /\ call[c].stmts = 0 /\ call[c].commits = 0 /\ call[c].rollbacks = 0

C15_Witness ==
    \E c \in Callers :
        /\ call[c].afterClose /\ Left(c)
        /\ calls[c] = 2 /\ prev[c] = "return"
        /\ call[c].result = Returned(ErrClosed)
        /\ call[c].fnCalls = 0

Terminal == {"Committed", "RolledBack"}

\* fn has been invoked and has not ended.
FnRunning(c) == call[c].pc \in {"fn", "stmt"}

C16_State(c) ==
    /\ call[c].txState \in {"NotStarted", "Active"} \cup Terminal
    /\ FnRunning(c) => (call[c].txState = "Active" /\ call[c].fnOut = NoOutcome)
    /\ call[c].fnCalls > 0 => call[c].txState # "NotStarted"
    /\ call[c].commits + call[c].rollbacks > 0 => call[c].fnOut # NoOutcome
    /\ call[c].pc \in {"commit", "rollback"} => call[c].txState = "Active"
    /\ call[c].txState \in Terminal => Left(c)

\* A step within one Tx call.
C16_Step(c) ==
    calls'[c] = calls[c] =>
        /\ call'[c].txState # call[c].txState =>
              \/ call[c].txState = "NotStarted" /\ call'[c].txState = "Active"
              \/ call[c].txState = "Active" /\ call'[c].txState \in Terminal
        /\ call'[c].fnCalls # call[c].fnCalls => call'[c].txState = "Active"
        /\ call'[c].stmts # call[c].stmts => call[c].txState = "Active"
        /\ (call'[c].commits # call[c].commits \/ call'[c].rollbacks # call[c].rollbacks)
              => (call[c].txState = "Active" /\ call'[c].fnOut # NoOutcome)
        /\ call[c].txState \in Terminal =>
              /\ call'[c].txState = call[c].txState
              /\ call'[c].stmts = call[c].stmts
              /\ call'[c].commits = call[c].commits
              /\ call'[c].rollbacks = call[c].rollbacks
              /\ call'[c].fnCalls = call[c].fnCalls

\* C16: the transaction of a Tx call moves only from NotStarted to Active
\* and from Active to Committed or RolledBack; fn is invoked, and runs, only
\* while it is Active; a commit or rollback is issued only once fn has
\* ended; and once it is Committed or RolledBack its state stays and no
\* statement, commit or rollback is issued on it any more.
C16_StateMachine ==
    /\ [](\A c \in Callers : C16_State(c))
    /\ [][\A c \in Callers : C16_Step(c)]_vars

C16_Witness ==
    \E c \in Callers :
        /\ call[c].txState = "Committed"
        /\ call[c].stmts = 2 /\ call[c].fnCalls = 1
        /\ call[c].commits = 1 /\ call[c].rollbacks = 0
        /\ calls[c] = 2 /\ prev[c] = "return"

\* C17: when ToSQL succeeds and the translation of its SQL fails, Exec and
\* Query return the translation error and a nil value, QueryRow returns a
\* rowError whose Scan returns the translation error, and the driver is not
\* contacted, as when the builder fails; and whatever happens, QueryRow
\* returns a Row that is not nil.
C17_TranslationErrorShortCircuits ==
    \A c \in Callers :
        /\ call[c].last.trErr # Nil =>
              /\ call[c].last.qbErr = Nil
              /\ call[c].last.stage = "replacePlaceholders"
              /\ call[c].last.err = call[c].last.trErr
              /\ ~call[c].last.contacted
              /\ call[c].last.op \in {"Exec", "Query"} => call[c].last.val = "nil"
              /\ call[c].last.op = "QueryRow" =>
                    /\ call[c].last.val = "rowError"
                    /\ call[c].scanErr \in {"none", call[c].last.trErr}
              /\ call[c].pc = "fn" => call[c].txState = "Active"
        /\ (StmtReturned(c) /\ call[c].last.op = "QueryRow") =>
              call[c].last.val \in {"row", "rowError"}

C17_Witness ==
    \E c \in Callers :
        /\ call[c].pc = "fn"
        /\ call[c].last.op = "QueryRow"
        /\ call[c].last.qbErr = Nil
        /\ call[c].last.trErr = ErrPlaceholder
        /\ call[c].last.val = "rowError"
        /\ call[c].scanErr = ErrPlaceholder
        /\ ~call[c].last.contacted

\* The errors that BeginTx, fn, the commit and the rollback of a Tx call
\* have produced.
Produced(c) ==
    ({call[c].beginErr, call[c].opErr} \ {"none", Nil})
      \cup (IF FnFailed(c) THEN {call[c].fnOut.err} ELSE {})

StmtFailed(c) ==
    /\ StmtReturned(c)
    /\ \/ call[c].last.err # Nil
       \/ call[c].scanErr \notin {"none", Nil}

\* C20: a statement call that failed, at the builder, the translator or the
\* driver, leaves the transaction Active with no commit or rollback issued
\* while fn runs; the commit is issued exactly when fn returns nil and the
\* rollback exactly when fn ends otherwise, also after a failed statement.
C20_DecisionByFnOutcome ==
    \A c \in Callers :
        /\ (StmtFailed(c) /\ call[c].pc = "fn") =>
              /\ call[c].txState = "Active"
              /\ call[c].conn # 0
              /\ call[c].commits = 0 /\ call[c].rollbacks = 0
        /\ call[c].commits = 1 <=> call[c].fnOut = Returned(Nil)
        /\ call[c].rollbacks = 1 <=>
              (call[c].fnOut # NoOutcome /\ call[c].fnOut # Returned(Nil))
        /\ (Left(c) /\ call[c].txState = "Committed") => call[c].fnOut = Returned(Nil)

C20_Witness ==
    \E c \in Callers :
        /\ Left(c)
        /\ call[c].last.op = "Exec" /\ call[c].last.err = ErrDriver
        /\ call[c].fnOut = Returned(Nil)
        /\ call[c].commits = 1 /\ call[c].rollbacks = 0
        /\ call[c].txState = "Committed"
        /\ call[c].result = Returned(Nil)

====
